---------------------------- MODULE Spec2Model ----------------------------
(***************************************************************************)
(* oncall-exporter: a polling loop that fetches the on-call service's HTTP *)
(* API and republishes derived gauges.  The model follows                  *)
(* src/oncall-exporter.py: the metric registry, request_with_counting, the *)
(* three updaters (health, number_of_users_without_contacts, teams) and    *)
(* the __main__ loop that calls them in order inside try/except.           *)
(*                                                                         *)
(* The upstream service is the environment: a function from request path   *)
(* to what a GET of that path yields right now: a transport failure        *)
(* (requests.get raises) or a response with a status code and a JSON body. *)
(* It changes only while the loop sleeps.                                  *)
(***************************************************************************)
EXTENDS Integers, Sequences, FiniteSets, TLC

VARIABLES
    reg,          \* the metric registry: one field per instrument
    upstream,     \* the environment: path -> result of a GET
    i,            \* position of the for loop in updaters (Len+1: sleeping)
    pass,         \* number of the current pass of the while loop
    exit_status,  \* "running", "exit0" (SIGINT) or "crash" (uncaught error)
    invoked,      \* history: updaters called so far in this pass
    logged,       \* history: for each of them, whether logging.exception ran
    sent,         \* history: paths requested by the most recent updater call
    before,       \* history: the registry as the most recent updater call found it
    n_sent,       \* history: number of requests.get calls so far
    n_non200,     \* history: number of responses received with a status # 200
    last_change   \* history: the path whose upstream answer changed in the last sleep

vars == <<reg, upstream, i, pass, exit_status, invoked, logged, sent, before,
          n_sent, n_non200, last_change>>

---------------------------------------------------------------------------
(* Bounds of the model.                                                    *)

MaxPass == 2
MaxUsers == 2
MaxPrimary == 1
MaxSecondary == 1

---------------------------------------------------------------------------
(* JSON values and HTTP results.                                           *)

HTTP_OK == 200

\* json null
None == [null |-> TRUE]

\* a contacts / user_contacts mapping with the given keys
Mapping(keys) == [k \in keys |-> "x"]

\* Python truthiness of a JSON value that is null or a mapping
Falsy(v) == v = None \/ DOMAIN v = {}

\* requests.get raised (connection error, timeout)
ConnectionError == [exception |-> "ConnectionError"]

Response(code, body) == [status_code |-> code, json |-> body]

Raises(r) == "exception" \in DOMAIN r

SeqsUpTo(S, n) == UNION {[1..k -> S] : k \in 0..n}

---------------------------------------------------------------------------
(* The registry (src/oncall-exporter.py:44-135).  An unlabelled Counter or *)
(* Gauge exists with value 0 from its declaration; a labelled Gauge has no *)
(* series until .labels(...) is first called.                              *)

Registry ==
    [ONCALL_API_REQUESTS_TOTAL |-> 0,
     ONCALL_API_REQUESTS_FAILED_TOTAL |-> 0,
     ONCALL_HEALTH_STATUS |-> 0,
     ONCALL_USERS_TOTAL |-> 0,
     ONCALL_USERS_WITHOUT_CONTACTS_GAUGE |-> 0,
     ONCALL_USERS_WITHOUT_PHONE_NUMBER |-> 0,
     ONCALL_TEAMS_TOTAL |-> 0,
     ONCALL_TEAMS_UNDERSTAFFED |-> 0,
     ONCALL_TEAMS_TOTAL_UNREACHABLE_BY_PHONE |-> 0,
     ONCALL_TEAM_ROTATION_STAFF_COUNT |-> <<>>,
     ONCALL_TEAM_ROTATION_UNREACHABLE_BY_PHONE_COUNT |-> <<>>]

\* gauge.labels(team_name, rotation).set(v)
LabelsSet(series, team_name, rotation, v) ==
    [l \in DOMAIN series \cup {<<team_name, rotation>>} |->
        IF l = <<team_name, rotation>> THEN v ELSE series[l]]

---------------------------------------------------------------------------
(* The API client (src/oncall-exporter.py:64-72).  An operation works on   *)
(* s = [reg, sent, upstream]: the registry, the requests sent so far, and  *)
(* what the upstream answers.                                              *)

\* requests.get(url, timeout=Config.timeout)
requests_get(s, path) ==
    [s |-> [s EXCEPT !.sent = Append(@, path)],
     raised |-> Raises(s.upstream[path]),
     resp |-> s.upstream[path]]

request_with_counting_inc_after_get(s, path) ==
    LET g == requests_get(s, path)
    IN  IF g.raised THEN g
        ELSE IF g.resp.status_code # HTTP_OK
        THEN [g EXCEPT !.s.reg.ONCALL_API_REQUESTS_TOTAL = @ + 1,
                       !.s.reg.ONCALL_API_REQUESTS_FAILED_TOTAL = @ + 1]
        ELSE [g EXCEPT !.s.reg.ONCALL_API_REQUESTS_TOTAL = @ + 1]

request_with_counting(s, path) ==
    LET s1 == [s EXCEPT !.reg.ONCALL_API_REQUESTS_TOTAL = @ + 1]
        g == requests_get(s1, path)
    IN  IF g.raised THEN g
        ELSE IF g.resp.status_code # HTTP_OK
        THEN [g EXCEPT !.s.reg.ONCALL_API_REQUESTS_FAILED_TOTAL = @ + 1]
        ELSE g

---------------------------------------------------------------------------
(* The updaters.  Each returns [s, raised]: the state it leaves and        *)
(* whether an exception left it.                                           *)

Returns(s) == [s |-> s, raised |-> FALSE]
Raise(s) == [s |-> s, raised |-> TRUE]

health(s) ==
    LET r == request_with_counting(s, "/")
    IN  IF r.raised THEN Raise(r.s)
        ELSE IF r.resp.status_code = HTTP_OK
        THEN Returns([r.s EXCEPT !.reg.ONCALL_HEALTH_STATUS = 1])
        ELSE Returns([r.s EXCEPT !.reg.ONCALL_HEALTH_STATUS = 0])

\* the body of: for user in users.  c = [raised, failed_users, no_phone]
user_body_either_key_missing(c, user) ==
    IF "contacts" \notin DOMAIN user THEN [c EXCEPT !.raised = TRUE]
    ELSE [c EXCEPT
           !.failed_users = IF Falsy(user.contacts) THEN @ + 1 ELSE @,
           !.no_phone = IF "call" \notin DOMAIN user.contacts
                           \/ "sms" \notin DOMAIN user.contacts
                        THEN @ + 1 ELSE @]

user_body(c, user) ==
    IF "contacts" \notin DOMAIN user THEN [c EXCEPT !.raised = TRUE]
    ELSE [c EXCEPT
           !.failed_users = IF Falsy(user.contacts) THEN @ + 1 ELSE @,
           !.no_phone = IF "call" \notin DOMAIN user.contacts
                           /\ "sms" \notin DOMAIN user.contacts
                        THEN @ + 1 ELSE @]

RECURSIVE users_loop(_, _, _)
users_loop(c, users, k) ==
    IF c.raised \/ k > Len(users) THEN c
    ELSE users_loop(user_body(c, users[k]), users, k + 1)

number_of_users_without_contacts(s) ==
    LET r == request_with_counting(s, "/api/v0/users")
    IN  IF r.raised THEN Raise(r.s)
        ELSE IF r.resp.status_code # HTTP_OK THEN Returns(r.s)
        ELSE LET users == r.resp.json
                 s1 == [r.s EXCEPT !.reg.ONCALL_USERS_TOTAL = Len(users)]
                 c == users_loop([raised |-> FALSE, failed_users |-> 0,
                                  no_phone |-> 0], users, 1)
             IN  IF c.raised THEN Raise(s1)
                 ELSE Returns([s1 EXCEPT
                        !.reg.ONCALL_USERS_WITHOUT_CONTACTS_GAUGE = c.failed_users,
                        !.reg.ONCALL_USERS_WITHOUT_PHONE_NUMBER = c.no_phone])

\* "/api/v0/teams/{team_name}/summary"
SummaryPath(team_name) == "/api/v0/teams/" \o team_name \o "/summary"

EventTimes == <<"current", "next">>

\* both per-rotation gauges of (team_name, event_time) set
SetRotation(s, team_name, event_time, staff, unreachable) ==
    [s EXCEPT
       !.reg.ONCALL_TEAM_ROTATION_STAFF_COUNT =
           LabelsSet(@, team_name, event_time, staff),
       !.reg.ONCALL_TEAM_ROTATION_UNREACHABLE_BY_PHONE_COUNT =
           LabelsSet(@, team_name, event_time, unreachable)]

\* the body of: for event_time in ["current", "next"].
\* c = [s, raised, is_understaffed, is_unreachable_by_phone]
event_body_primary_only(c, team_name, team_data, event_time) ==
    IF event_time \notin DOMAIN team_data THEN [c EXCEPT !.raised = TRUE]
    ELSE LET event == team_data[event_time]
         IN  IF Falsy(event)
             THEN [c EXCEPT !.s = SetRotation(@, team_name, event_time, 0, 0)]
             ELSE IF ~({"primary", "secondary"} \subseteq DOMAIN event)
             THEN [c EXCEPT !.raised = TRUE]
             ELSE LET members == event.primary
                      members_without_number ==
                          SelectSeq(members,
                              LAMBDA member:
                                  /\ "call" \notin DOMAIN member.user_contacts
                                  /\ "sms" \notin DOMAIN member.user_contacts)
                  IN  [c EXCEPT
                         !.s = SetRotation(@, team_name, event_time, Len(members),
                                           Len(members_without_number)),
                         !.is_understaffed = @ \/ Len(members) < 2,
                         !.is_unreachable_by_phone =
                             @ \/ members_without_number = members]

event_body_flags_overwritten(c, team_name, team_data, event_time) ==
    IF event_time \notin DOMAIN team_data THEN [c EXCEPT !.raised = TRUE]
    ELSE LET event == team_data[event_time]
         IN  IF Falsy(event)
             THEN [c EXCEPT !.s = SetRotation(@, team_name, event_time, 0, 0)]
             ELSE IF ~({"primary", "secondary"} \subseteq DOMAIN event)
             THEN [c EXCEPT !.raised = TRUE]
             ELSE LET members == event.primary \o event.secondary
                      members_without_number ==
                          SelectSeq(members,
                              LAMBDA member:
                                  /\ "call" \notin DOMAIN member.user_contacts
                                  /\ "sms" \notin DOMAIN member.user_contacts)
                  IN  [c EXCEPT
                         !.s = SetRotation(@, team_name, event_time, Len(members),
                                           Len(members_without_number)),
                         !.is_understaffed = Len(members) < 2,
                         !.is_unreachable_by_phone =
                             members_without_number = members]

event_body(c, team_name, team_data, event_time) ==
    IF event_time \notin DOMAIN team_data THEN [c EXCEPT !.raised = TRUE]
    ELSE LET event == team_data[event_time]
         IN  IF Falsy(event)
             THEN [c EXCEPT !.s = SetRotation(@, team_name, event_time, 0, 0)]
             ELSE IF ~({"primary", "secondary"} \subseteq DOMAIN event)
             THEN [c EXCEPT !.raised = TRUE]
             ELSE LET members == event.primary \o event.secondary
                      members_without_number ==
                          SelectSeq(members,
                              LAMBDA member:
                                  /\ "call" \notin DOMAIN member.user_contacts
                                  /\ "sms" \notin DOMAIN member.user_contacts)
                  IN  [c EXCEPT
                         !.s = SetRotation(@, team_name, event_time, Len(members),
                                           Len(members_without_number)),
                         !.is_understaffed = @ \/ Len(members) < 2,
                         !.is_unreachable_by_phone =
                             @ \/ members_without_number = members]

RECURSIVE events_loop(_, _, _, _)
events_loop(c, team_name, team_data, j) ==
    IF c.raised \/ j > Len(EventTimes) THEN c
    ELSE events_loop(event_body(c, team_name, team_data, EventTimes[j]),
                     team_name, team_data, j + 1)

\* the body of: for team_name in teams.
\* c = [s, raised, understaffed, unreachable]
team_body_zeroes_failed_team(c, team_name) ==
    LET r == request_with_counting(c.s, SummaryPath(team_name))
    IN  IF r.raised THEN [c EXCEPT !.s = r.s, !.raised = TRUE]
        ELSE IF r.resp.status_code # HTTP_OK
        THEN [c EXCEPT !.s = SetRotation(SetRotation(r.s, team_name, "current", 0, 0),
                                         team_name, "next", 0, 0)]
        ELSE LET e == events_loop([s |-> r.s, raised |-> FALSE,
                                   is_understaffed |-> FALSE,
                                   is_unreachable_by_phone |-> FALSE],
                                  team_name, r.resp.json, 1)
             IN  IF e.raised THEN [c EXCEPT !.s = e.s, !.raised = TRUE]
                 ELSE [c EXCEPT
                        !.s = e.s,
                        !.understaffed = IF e.is_understaffed THEN @ + 1 ELSE @,
                        !.unreachable =
                            IF e.is_unreachable_by_phone THEN @ + 1 ELSE @]

team_body(c, team_name) ==
    LET r == request_with_counting(c.s, SummaryPath(team_name))
    IN  IF r.raised THEN [c EXCEPT !.s = r.s, !.raised = TRUE]
        ELSE IF r.resp.status_code # HTTP_OK THEN [c EXCEPT !.s = r.s]
        ELSE LET e == events_loop([s |-> r.s, raised |-> FALSE,
                                   is_understaffed |-> FALSE,
                                   is_unreachable_by_phone |-> FALSE],
                                  team_name, r.resp.json, 1)
             IN  IF e.raised THEN [c EXCEPT !.s = e.s, !.raised = TRUE]
                 ELSE [c EXCEPT
                        !.s = e.s,
                        !.understaffed = IF e.is_understaffed THEN @ + 1 ELSE @,
                        !.unreachable =
                            IF e.is_unreachable_by_phone THEN @ + 1 ELSE @]

RECURSIVE teams_loop(_, _, _)
teams_loop(c, team_names, k) ==
    IF c.raised \/ k > Len(team_names) THEN c
    ELSE teams_loop(team_body(c, team_names[k]), team_names, k + 1)

teams_accumulates(s) ==
    LET r == request_with_counting(s, "/api/v0/teams")
    IN  IF r.raised THEN Raise(r.s)
        ELSE IF r.resp.status_code # HTTP_OK THEN Returns(r.s)
        ELSE LET team_names == r.resp.json
                 c == teams_loop(
                        [s |-> [r.s EXCEPT !.reg.ONCALL_TEAMS_TOTAL = Len(team_names)],
                         raised |-> FALSE,
                         understaffed |-> s.reg.ONCALL_TEAMS_UNDERSTAFFED,
                         unreachable |-> s.reg.ONCALL_TEAMS_TOTAL_UNREACHABLE_BY_PHONE],
                        team_names, 1)
             IN  IF c.raised THEN Raise(c.s)
                 ELSE Returns([c.s EXCEPT
                        !.reg.ONCALL_TEAMS_UNDERSTAFFED = c.understaffed,
                        !.reg.ONCALL_TEAMS_TOTAL_UNREACHABLE_BY_PHONE = c.unreachable])

teams_zeroes_total_on_failure(s) ==
    LET r == request_with_counting(s, "/api/v0/teams")
    IN  IF r.raised THEN Raise(r.s)
        ELSE IF r.resp.status_code # HTTP_OK THEN Returns([r.s EXCEPT !.reg.ONCALL_TEAMS_TOTAL = 0])
        ELSE LET team_names == r.resp.json
                 c == teams_loop(
                        [s |-> [r.s EXCEPT !.reg.ONCALL_TEAMS_TOTAL = Len(team_names)],
                         raised |-> FALSE,
                         understaffed |-> 0,
                         unreachable |-> 0],
                        team_names, 1)
             IN  IF c.raised THEN Raise(c.s)
                 ELSE Returns([c.s EXCEPT
                        !.reg.ONCALL_TEAMS_UNDERSTAFFED = c.understaffed,
                        !.reg.ONCALL_TEAMS_TOTAL_UNREACHABLE_BY_PHONE = c.unreachable])

teams(s) ==
    LET r == request_with_counting(s, "/api/v0/teams")
    IN  IF r.raised THEN Raise(r.s)
        ELSE IF r.resp.status_code # HTTP_OK THEN Returns(r.s)
        ELSE LET team_names == r.resp.json
                 c == teams_loop(
                        [s |-> [r.s EXCEPT !.reg.ONCALL_TEAMS_TOTAL = Len(team_names)],
                         raised |-> FALSE,
                         understaffed |-> 0,
                         unreachable |-> 0],
                        team_names, 1)
             IN  IF c.raised THEN Raise(c.s)
                 ELSE Returns([c.s EXCEPT
                        !.reg.ONCALL_TEAMS_UNDERSTAFFED = c.understaffed,
                        !.reg.ONCALL_TEAMS_TOTAL_UNREACHABLE_BY_PHONE = c.unreachable])

---------------------------------------------------------------------------
(* The scheduler loop (src/oncall-exporter.py:36-41, 198-204).             *)

\* the list the @updater decorator fills, in the order of the definitions
updaters == <<"health", "number_of_users_without_contacts", "teams">>

\* func()
Call(func, s) ==
    CASE func = "health" -> health(s)
      [] func = "number_of_users_without_contacts" ->
            number_of_users_without_contacts(s)
      [] func = "teams" -> teams(s)

\* try: func() / except Exception as e: logging.exception(e)
try_func_propagates(func, s) ==
    LET r == Call(func, s)
    IN  [s |-> r.s, logged |-> FALSE, propagated |-> r.raised]

try_func(func, s) ==
    LET r == Call(func, s)
    IN  [s |-> r.s, logged |-> r.raised, propagated |-> FALSE]

Non200(r) == ~Raises(r) /\ r.status_code # HTTP_OK

\* one iteration of: for func in updaters
RunUpdater ==
    /\ exit_status = "running"
    /\ i <= Len(updaters)
    /\ LET r == try_func(updaters[i], [reg |-> reg, sent |-> <<>>, upstream |-> upstream])
       IN  /\ reg' = r.s.reg
           /\ sent' = r.s.sent
           /\ n_sent' = n_sent + Len(r.s.sent)
           /\ n_non200' = n_non200 + Cardinality(
                  {k \in 1..Len(r.s.sent) : Non200(upstream[r.s.sent[k]])})
           /\ logged' = Append(logged, r.logged)
           /\ IF r.propagated
              THEN exit_status' = "crash" /\ i' = i
              ELSE exit_status' = exit_status /\ i' = i + 1
    /\ before' = reg
    /\ invoked' = Append(invoked, updaters[i])
    /\ UNCHANGED <<upstream, pass, last_change>>

\* time.sleep(Config.update_period), then the next pass of while True
Sleep(new_upstream, changed) ==
    /\ exit_status = "running"
    /\ i = Len(updaters) + 1
    /\ pass < MaxPass
    /\ i' = 1
    /\ pass' = pass + 1
    /\ invoked' = <<>>
    /\ logged' = <<>>
    /\ upstream' = new_upstream
    /\ last_change' = changed
    /\ UNCHANGED <<reg, exit_status, sent, before, n_sent, n_non200>>

\* SIGINT: terminate() calls sys.exit(0)
Terminate ==
    /\ exit_status = "running"
    /\ exit_status' = "exit0"
    /\ UNCHANGED <<reg, upstream, i, pass, invoked, logged, sent, before,
                   n_sent, n_non200, last_change>>

---------------------------------------------------------------------------
(* The environment: what the upstream API may answer                       *)
(* (spec.md section 6; the shapes read at src/oncall-exporter.py:93-103,   *)
(* 143-170).                                                               *)

ContactKeys == {"call", "sms", "email"}

User(keys) == [name |-> "u", contacts |-> Mapping(keys)]

\* a user object without the contacts key: user['contacts'] raises KeyError
MalformedUser == [name |-> "u"]

Member(keys) == [user_contacts |-> Mapping(keys)]

Members == {Member({"call"}), Member({"sms"}), Member({"email"})}

Event(primary, secondary) == [primary |-> primary, secondary |-> secondary]

\* an event object without the secondary key: event["secondary"] raises KeyError
MalformedEvent == [primary |-> <<>>]

NonSuccess == Response(503, None)

Summary(current, next) == Response(HTTP_OK, [current |-> current, next |-> next])

TeamNames == {"a", "b"}

Paths == {"/", "/api/v0/users", "/api/v0/teams"}
            \cup {SummaryPath(t) : t \in TeamNames}

Upstream(root, users, team_list, summary_a, summary_b) ==
    [p \in Paths |->
        CASE p = "/" -> root
          [] p = "/api/v0/users" -> users
          [] p = "/api/v0/teams" -> team_list
          [] p = SummaryPath("a") -> summary_a
          [] p = SummaryPath("b") -> summary_b]

\* every answer within the bounds
\* 204: a success status that is not 200
RootResponses ==
    {ConnectionError, NonSuccess, Response(204, None), Response(HTTP_OK, None)}

UserEntries == {User(keys) : keys \in SUBSET ContactKeys} \cup {MalformedUser}

UsersResponses ==
    {ConnectionError, NonSuccess}
        \cup {Response(HTTP_OK, users) : users \in SeqsUpTo(UserEntries, MaxUsers)}

TeamLists == {<<>>, <<"a">>, <<"b">>, <<"a", "b">>, <<"b", "a">>}

TeamsResponses ==
    {ConnectionError, NonSuccess} \cup {Response(HTTP_OK, l) : l \in TeamLists}

Events ==
    {None, Mapping({})}
        \cup {Event(p, q) : p \in SeqsUpTo(Members, MaxPrimary),
                            q \in SeqsUpTo(Members, MaxSecondary)}

\* a few events: absent, one reachable member, two unreachable members,
\* two reachable members
SomeEvents ==
    {None,
     Event(<<Member({"call"})>>, <<>>),
     Event(<<Member({"email"})>>, <<Member({"email"})>>),
     Event(<<Member({"call"})>>, <<Member({"sms"})>>)}

\* one slot ranges over every event, the other over a few
SummaryResponses ==
    {ConnectionError, NonSuccess}
        \cup {Summary(c, n) : c \in Events, n \in SomeEvents}
        \cup {Summary(c, n) : c \in SomeEvents, n \in Events}

\* a few answers per path, the ones the upstream moves between while the
\* loop sleeps
SomeUsersResponses ==
    {ConnectionError, NonSuccess,
     Response(HTTP_OK, <<>>),
     Response(HTTP_OK, <<User({}), User({"email"})>>),
     Response(HTTP_OK, <<User({"sms"}), MalformedUser>>)}

SomeTeamsResponses ==
    {ConnectionError, NonSuccess,
     Response(HTTP_OK, <<"a">>),
     Response(HTTP_OK, <<"a", "b">>),
     Response(HTTP_OK, <<"b", "a">>)}

SomeSummaryResponses ==
    {ConnectionError, NonSuccess,
     Summary(None, None),
     Summary(Event(<<Member({"call"})>>, <<>>), None),
     Summary(Event(<<Member({"email"})>>, <<Member({"email"})>>),
             Event(<<Member({"sms"})>>, <<Member({"call"})>>)),
     Summary(Event(<<Member({"call"})>>, <<Member({"sms"})>>), MalformedEvent)}

SomeResponses(path) ==
    CASE path = "/" -> RootResponses
      [] path = "/api/v0/users" -> SomeUsersResponses
      [] path = "/api/v0/teams" -> SomeTeamsResponses
      [] OTHER -> SomeSummaryResponses

\* the upstream is as it was during the previous pass
SleepStable == Sleep(upstream, "none")

\* the answer of one path changed while the loop slept
SleepChange ==
    \E path \in Paths :
        \E r \in SomeResponses(path) \ {upstream[path]} :
            Sleep([upstream EXCEPT ![path] = r], path)

---------------------------------------------------------------------------
(* Specifications.                                                         *)

Started ==
    /\ reg = Registry
    /\ i = 1
    /\ pass = 1
    /\ exit_status = "running"
    /\ invoked = <<>>
    /\ logged = <<>>
    /\ sent = <<>>
    /\ before = Registry
    /\ n_sent = 0
    /\ n_non200 = 0
    /\ last_change = "none"

\* The whole loop against an upstream that moves between a few answers.
Init ==
    /\ Started
    /\ upstream \in
         {Upstream(root, users, team_list, summary_a, summary_b) :
            root \in {ConnectionError, Response(HTTP_OK, None)},
            users \in {ConnectionError,
                       Response(HTTP_OK, <<User({}), User({"email"})>>)},
            team_list \in {ConnectionError, Response(HTTP_OK, <<"a", "b">>)},
            summary_a \in SomeSummaryResponses,
            summary_b \in SomeSummaryResponses}

Next == RunUpdater \/ SleepStable \/ SleepChange \/ Terminate

Spec == Init /\ [][Next]_vars

\* The loop against every users answer within the bounds, unchanged
\* between passes.
InitUsers ==
    /\ Started
    /\ upstream \in
         {Upstream(Response(HTTP_OK, None), users, NonSuccess, NonSuccess, NonSuccess) :
            users \in UsersResponses}

NextStable == RunUpdater \/ SleepStable

SpecUsers == InitUsers /\ [][NextStable]_vars

\* The loop against every team list and, for team a, every summary
\* answer within the bounds, unchanged between passes.
InitTeams ==
    /\ Started
    /\ upstream \in
         {Upstream(Response(HTTP_OK, None), NonSuccess, team_list, summary_a, summary_b) :
            team_list \in TeamsResponses,
            summary_a \in SummaryResponses,
            summary_b \in SomeSummaryResponses}

SpecTeams == InitTeams /\ [][NextStable]_vars

---------------------------------------------------------------------------
(* Vocabulary of the properties.                                           *)

\* the gauges of a registry: everything but the two request counters
Gauges(r) ==
    [r EXCEPT !.ONCALL_API_REQUESTS_TOTAL = 0,
              !.ONCALL_API_REQUESTS_FAILED_TOTAL = 0]

\* func is the updater the loop called most recently in this pass
Ran(func) == invoked # <<>> /\ invoked[Len(invoked)] = func

\* that call raised (the loop logged the exception)
RanRaised == logged[Len(logged)]

\* the loop went on to the next updater
WentOn == exit_status # "crash" /\ i = Len(invoked) + 1

Is200(r) == ~Raises(r) /\ r.status_code = HTTP_OK

Range(f) == {f[x] : x \in DOMAIN f}

\* the label series of one team in both per-rotation gauges
RotationSeries(r, team_name) ==
    [g \in {"staff", "unreachable"} |->
        LET series == IF g = "staff" THEN r.ONCALL_TEAM_ROTATION_STAFF_COUNT
                      ELSE r.ONCALL_TEAM_ROTATION_UNREACHABLE_BY_PHONE_COUNT
        IN  [l \in {l \in DOMAIN series : l[1] = team_name} |-> series[l]]]

NoSeries == [g \in {"staff", "unreachable"} |-> <<>>]

TeamList == upstream["/api/v0/teams"]

SummaryOf(team_name) == upstream[SummaryPath(team_name)]

MembersOf(event) == event.primary \o event.secondary

LacksPhone(member) == DOMAIN member.user_contacts \cap {"call", "sms"} = {}

WellFormed(team_data) ==
    \A e \in {"current", "next"} :
        /\ e \in DOMAIN team_data
        /\ Falsy(team_data[e]) \/ {"primary", "secondary"} \subseteq DOMAIN team_data[e]

---------------------------------------------------------------------------
(* Properties.                                                             *)

\* C1: in every pass the loop calls health, number_of_users_without_contacts
\* and teams in that order, each once: the updaters called so far in the
\* pass are always the first i - 1 of the list, whether or not any of them
\* raised; an exception raised inside one of them never ends the loop (the
\* process does not crash), so the loop stands at the next updater or, after
\* the third, at the sleep before the next pass.
C1_FailureIsolation ==
    /\ exit_status # "crash"
    /\ i \in 1..Len(updaters) + 1
    /\ invoked = SubSeq(updaters, 1, i - 1)
    /\ Len(logged) = Len(invoked)

\* all three updaters raised in the first pass (the upstream has not changed
\* since), the second pass started, and all three were called and raised again
C1_Witness ==
    /\ pass = 2
    /\ last_change = "none"
    /\ exit_status = "running"
    /\ invoked = updaters
    /\ logged = <<TRUE, TRUE, TRUE>>

\* C2: oncall_api_requests_total equals the number of requests made,
\* whatever their outcome, and oncall_api_requests_failed_total the number of
\* responses received with a status other than 200; each updater call adds
\* exactly its requests to the first and its non-200 responses to the second;
\* so failed <= total.
C2_RequestCounters ==
    /\ reg.ONCALL_API_REQUESTS_TOTAL = n_sent
    /\ reg.ONCALL_API_REQUESTS_FAILED_TOTAL = n_non200
    /\ reg.ONCALL_API_REQUESTS_FAILED_TOTAL <= reg.ONCALL_API_REQUESTS_TOTAL
    /\ invoked # <<>> =>
          /\ reg.ONCALL_API_REQUESTS_TOTAL - before.ONCALL_API_REQUESTS_TOTAL
                = Len(sent)
          /\ reg.ONCALL_API_REQUESTS_FAILED_TOTAL
                - before.ONCALL_API_REQUESTS_FAILED_TOTAL
                = Cardinality({k \in 1..Len(sent) : Non200(upstream[sent[k]])})

\* a teams run that made three requests: one answered 200, one answered with
\* another status, one that failed in transport
C2_Witness ==
    /\ Ran("teams")
    /\ Len(sent) = 3
    /\ Is200(upstream[sent[1]])
    /\ Non200(upstream[sent[2]])
    /\ Raises(upstream[sent[3]])
    /\ reg.ONCALL_API_REQUESTS_TOTAL = before.ONCALL_API_REQUESTS_TOTAL + 3
    /\ reg.ONCALL_API_REQUESTS_FAILED_TOTAL
          = before.ONCALL_API_REQUESTS_FAILED_TOTAL + 1

\* C3: after every call of health, oncall_health_status is 1 if the GET of
\* "/" answered 200 and 0 in every other outcome, a transport failure
\* included.
C3_HealthGaugeFollowsProbe ==
    Ran("health") =>
        reg.ONCALL_HEALTH_STATUS = IF Is200(upstream["/"]) THEN 1 ELSE 0

\* C4: an updater whose fetch fails in transport leaves the gauges as it
\* would have left them had that same fetch answered with a non-success
\* status (in teams: only that team is skipped, the later teams are
\* processed and the rollup gauges are written).
C4_TransportFailureLikeNonSuccess ==
    (invoked # <<>> /\ sent # <<>> /\ Raises(upstream[sent[Len(sent)]])) =>
        Gauges(reg) =
            Gauges(Call(invoked[Len(invoked)],
                        [reg |-> before, sent |-> <<>>,
                         upstream |-> [upstream EXCEPT ![sent[Len(sent)]] =
                                           NonSuccess]]).s.reg)

\* C5: when the list fetch of number_of_users_without_contacts or of teams
\* answers with a non-success status, the updater returns normally, has made
\* no other request, has left every gauge and every label series as it found
\* it, and the loop goes on.
C5_ListNonSuccessWritesNothing ==
    \A f \in {<<"number_of_users_without_contacts", "/api/v0/users">>,
              <<"teams", "/api/v0/teams">>} :
        (Ran(f[1]) /\ Non200(upstream[f[2]])) =>
            /\ Gauges(reg) = Gauges(before)
            /\ sent = <<f[2]>>
            /\ ~RanRaised
            /\ WentOn

\* teams found a team total of 2, an understaffed team and label series from
\* an earlier pass, and its list fetch answered with a non-success status
C5_Witness ==
    /\ Ran("teams")
    /\ Non200(TeamList)
    /\ before.ONCALL_TEAMS_TOTAL = 2
    /\ before.ONCALL_TEAMS_UNDERSTAFFED >= 1
    /\ DOMAIN before.ONCALL_TEAM_ROTATION_STAFF_COUNT # {}
    /\ reg.ONCALL_TEAMS_TOTAL = 2

\* C6: a teams run leaves the label series of a team untouched (not created,
\* not changed, not removed) unless the team is in the list just fetched and
\* its summary fetch answered 200; a team whose summary answered with a
\* non-success status does not stop the run: the team after it in the list
\* is fetched too.
C6_SeriesOnlyOfListedFetchedTeams ==
    Ran("teams") =>
        /\ \A t \in TeamNames :
              ~(Is200(TeamList) /\ t \in Range(TeamList.json)
                  /\ Is200(SummaryOf(t)))
                 => RotationSeries(reg, t) = RotationSeries(before, t)
        /\ \A l \in DOMAIN reg.ONCALL_TEAM_ROTATION_STAFF_COUNT
                 \cup DOMAIN reg.ONCALL_TEAM_ROTATION_UNREACHABLE_BY_PHONE_COUNT :
              l[1] \in TeamNames
        /\ Is200(TeamList) =>
              \A k \in 1..Len(TeamList.json) - 1 :
                  (SummaryPath(TeamList.json[k]) \in Range(sent)
                     /\ Non200(SummaryOf(TeamList.json[k])))
                    => SummaryPath(TeamList.json[k + 1]) \in Range(sent)

\* the list is a, b; a's summary answers with a non-success status and a's
\* series, written in an earlier pass, are still there; b is fetched and has
\* its series
C6_Witness ==
    /\ Ran("teams")
    /\ Is200(TeamList)
    /\ TeamList.json = <<"a", "b">>
    /\ Non200(SummaryOf("a"))
    /\ RotationSeries(reg, "a") # NoSeries
    /\ RotationSeries(reg, "a") = RotationSeries(before, "a")
    /\ sent = <<"/api/v0/teams", SummaryPath("a"), SummaryPath("b")>>
    /\ Is200(SummaryOf("b"))
    /\ RotationSeries(reg, "b") # NoSeries

\* C7: after a teams run whose list fetch answered 200 and which did not
\* raise, oncall_teams_understaffed is the number of listed teams whose
\* summary answered 200 and that have a present slot with fewer than 2
\* members, and oncall_teams_total_unreachable_by_phone the number of those
\* that have a present slot in which every member lacks both call and sms.
C7_Rollups ==
    (Ran("teams") /\ Is200(TeamList) /\ ~RanRaised) =>
        LET names == TeamList.json
            Counted(P(_)) ==
                Cardinality(
                    {k \in 1..Len(names) :
                        /\ Is200(SummaryOf(names[k]))
                        /\ \E e \in {"current", "next"} :
                              LET event == SummaryOf(names[k]).json[e]
                              IN  ~Falsy(event) /\ P(MembersOf(event))})
            FewerThanTwo(members) == Len(members) < 2
            AllLackPhone(members) ==
                \A m \in 1..Len(members) : LacksPhone(members[m])
        IN  /\ reg.ONCALL_TEAMS_UNDERSTAFFED = Counted(FewerThanTwo)
            /\ reg.ONCALL_TEAMS_TOTAL_UNREACHABLE_BY_PHONE = Counted(AllLackPhone)

\* team a has two understaffed slots, one of them without any phone, team b
\* has no rotation at all: each rollup is 1
C7_Witness ==
    /\ Ran("teams")
    /\ ~RanRaised
    /\ Is200(TeamList)
    /\ TeamList.json = <<"a", "b">>
    /\ SummaryOf("a") = Summary(Event(<<Member({"call"})>>, <<>>),
                                Event(<<Member({"email"})>>, <<>>))
    /\ SummaryOf("b") = Summary(None, None)
    /\ reg.ONCALL_TEAMS_UNDERSTAFFED = 1
    /\ reg.ONCALL_TEAMS_TOTAL_UNREACHABLE_BY_PHONE = 1

\* C8: after a number_of_users_without_contacts run whose fetch answered 200
\* with a list of users that all have a contacts mapping, oncall_users_total
\* is the number of users, oncall_users_without_contacts_gauge the number
\* with an empty mapping, oncall_users_without_phone the number with neither
\* a call nor an sms key; both are <= oncall_users_total.
C8_UserGauges ==
    LET r == upstream["/api/v0/users"]
    IN  (/\ Ran("number_of_users_without_contacts")
         /\ Is200(r)
         /\ \A k \in 1..Len(r.json) : "contacts" \in DOMAIN r.json[k]) =>
            /\ reg.ONCALL_USERS_TOTAL = Len(r.json)
            /\ reg.ONCALL_USERS_WITHOUT_CONTACTS_GAUGE =
                  Cardinality({k \in 1..Len(r.json) :
                                  DOMAIN r.json[k].contacts = {}})
            /\ reg.ONCALL_USERS_WITHOUT_PHONE_NUMBER =
                  Cardinality({k \in 1..Len(r.json) :
                                  DOMAIN r.json[k].contacts \cap {"call", "sms"} = {}})
            /\ reg.ONCALL_USERS_WITHOUT_CONTACTS_GAUGE <= reg.ONCALL_USERS_TOTAL
            /\ reg.ONCALL_USERS_WITHOUT_PHONE_NUMBER <= reg.ONCALL_USERS_TOTAL

\* a user with no contacts and a user with only an email: total 2, without
\* contacts 1, without phone 2
C8_Witness ==
    /\ Ran("number_of_users_without_contacts")
    /\ upstream["/api/v0/users"]
          = Response(HTTP_OK, <<User({}), User({"email"})>>)
    /\ reg.ONCALL_USERS_TOTAL = 2
    /\ reg.ONCALL_USERS_WITHOUT_CONTACTS_GAUGE = 1
    /\ reg.ONCALL_USERS_WITHOUT_PHONE_NUMBER = 2

\* C9: after a teams run, for every listed team whose summary was fetched
\* and answered 200 with a well-formed body, and for each of current and
\* next: both series of (team, slot) exist; they are 0 if the slot's event
\* is null or empty, otherwise the staff count is the number of members of
\* primary ++ secondary and the unreachable count the number of them with
\* neither a call nor an sms key; unreachable <= staff.
C9_RotationSeries ==
    (Ran("teams") /\ Is200(TeamList)) =>
        \A k \in 1..Len(TeamList.json) :
            LET t == TeamList.json[k]
                staff == reg.ONCALL_TEAM_ROTATION_STAFF_COUNT
                unreachable == reg.ONCALL_TEAM_ROTATION_UNREACHABLE_BY_PHONE_COUNT
            IN  (/\ SummaryPath(t) \in Range(sent)
                 /\ Is200(SummaryOf(t))
                 /\ WellFormed(SummaryOf(t).json)) =>
                    \A e \in {"current", "next"} :
                        LET event == SummaryOf(t).json[e]
                        IN  /\ <<t, e>> \in DOMAIN staff
                            /\ <<t, e>> \in DOMAIN unreachable
                            /\ staff[<<t, e>>] =
                                  IF Falsy(event) THEN 0
                                  ELSE Len(event.primary) + Len(event.secondary)
                            /\ unreachable[<<t, e>>] =
                                  IF Falsy(event) THEN 0
                                  ELSE Cardinality(
                                         {m \in 1..Len(MembersOf(event)) :
                                             LacksPhone(MembersOf(event)[m])})
                            /\ unreachable[<<t, e>>] <= staff[<<t, e>>]

\* team a: current has a primary with a phone and a secondary without one,
\* next is null: staff 2, unreachable 1, and 0, 0
C9_Witness ==
    /\ Ran("teams")
    /\ SummaryOf("a") = Summary(Event(<<Member({"sms"})>>, <<Member({"email"})>>),
                                None)
    /\ <<"a", "current">> \in DOMAIN reg.ONCALL_TEAM_ROTATION_STAFF_COUNT
    /\ reg.ONCALL_TEAM_ROTATION_STAFF_COUNT[<<"a", "current">>] = 2
    /\ reg.ONCALL_TEAM_ROTATION_UNREACHABLE_BY_PHONE_COUNT[<<"a", "current">>] = 1
    /\ reg.ONCALL_TEAM_ROTATION_STAFF_COUNT[<<"a", "next">>] = 0
    /\ reg.ONCALL_TEAM_ROTATION_UNREACHABLE_BY_PHONE_COUNT[<<"a", "next">>] = 0

\* C10: from any reachable registry, calling the same updater twice in
\* succession against the same upstream leaves every gauge and every label
\* series after the second call as after the first (the same values, the
\* same series), and the second call ends as the first did.
C10_Idempotent ==
    \A k \in 1..Len(updaters) :
        LET r1 == Call(updaters[k],
                       [reg |-> reg, sent |-> <<>>, upstream |-> upstream])
            r2 == Call(updaters[k], [r1.s EXCEPT !.sent = <<>>])
        IN  /\ Gauges(r2.s.reg) = Gauges(r1.s.reg)
            /\ r2.raised = r1.raised
            /\ r2.s.sent = r1.s.sent

\* the second pass against an unchanged upstream: teams ran to its end, found
\* the rollups and series of the first pass and left the gauges as they were
C10_Witness ==
    /\ pass = 2
    /\ last_change = "none"
    /\ Ran("teams")
    /\ ~RanRaised
    /\ reg.ONCALL_TEAMS_UNDERSTAFFED >= 1
    /\ DOMAIN reg.ONCALL_TEAM_ROTATION_STAFF_COUNT # {}
    /\ Gauges(reg) = Gauges(before)

=============================================================================
